---- MODULE Spec2Model ----
(***************************************************************************)
(* A model of TurtleNLP: the tortuga interpreter (inpr.py) and the         *)
(* dependency-tree phrase compiler (turtle_nlp.py).                        *)
(*                                                                         *)
(* A line of assembly is modelled as the sequence of tokens that           *)
(* `line.strip().split()` yields; the blank line is the empty sequence.    *)
(***************************************************************************)
EXTENDS Integers, Sequences, FiniteSets, TLC

VARIABLES
    history,     \* Interpreter.history: the non-blank lines pulled so far
    line_no,     \* Interpreter.line_no: 0-based index of the next instruction
    num_stack,   \* Interpreter.num_stack: remaining iterations of open loops
    line_stack,  \* Interpreter.line_stack: resume points of open loops
    depth,       \* Interpreter.depth: nesting depth inside a skipped region
    outfile,     \* the sink: basic instructions forwarded by basic_interpret
    gen_pos,     \* number of lines next(self.gen) has handed out
    steps,       \* number of instructions run() has executed or rejected
    status,      \* "running", "returned", or the exception run() raised
    arg,         \* the input of a call of one of the compiler's functions
    call,        \* the function called, "" before the call
    ret,         \* the outcome of the call
    texts,       \* text_to_turtle's gen: the input texts, one per line
    text_no,     \* number of texts next(gen) has handed out
    sentences,   \* the parsed sentences of the current text still to convert
    yielded,     \* the lines text_to_turtle has yielded
    stderr,      \* the CELists text_to_turtle has printed
    driver       \* "idle", "running", "returned", or the exception raised

ivars == <<history, line_no, num_stack, line_stack, depth, outfile, gen_pos,
           steps, status>>

cvars == <<arg, call, ret>>

dvars == <<texts, text_no, sentences, yielded, stderr, driver>>

vars == <<ivars, cvars, dvars>>

----------------------------------------------------------------------------
(* Bounds of the model *)

MaxHist == 5     \* lines of history
MaxBlank == 1    \* blank lines in the input
MaxNeg == 4      \* a loop counter is not decremented below -MaxNeg
MaxParts == 3    \* clauses joined in one sentence
MaxTokens == 3   \* tokens of a sentence handed to parse_sentence as it is
MaxEdges == 3    \* edges of such a sentence
MaxTexts == 2    \* input lines handed to text_to_turtle

----------------------------------------------------------------------------
(* inpr.py: opcode table and operand conversion *)

opcodes ==
    [fd |-> <<"str", "float">>, bk |-> <<"str", "float">>,
     rol |-> <<"str", "float">>, ror |-> <<"str", "float">>,
     shl |-> <<"str", "float">>, shr |-> <<"str", "float">>,
     up |-> <<"str", "float">>, down |-> <<"str", "float">>,
     deg |-> <<"str">>, rad |-> <<"str">>,
     create |-> <<"str">>, destroy |-> <<"str">>,
     repeat |-> <<"int">>, end |-> <<>>]

\* Python's int(s): the tokens it accepts and their values.
IntValue ==
    ("0" :> 0) @@ ("1" :> 1) @@ ("2" :> 2) @@ ("3" :> 3) @@ ("-1" :> -1)
    @@ ("10" :> 10) @@ ("90" :> 90)

\* Python's float(s) accepts every integer literal and the decimal ones.
FloatTokens == DOMAIN IntValue \cup {"2.5", "10.0", "90.0"}

\* typ(value) returns normally (TRUE) or raises ValueError (FALSE).
Converts(typ, value) ==
    CASE typ = "str" -> TRUE
      [] typ = "float" -> value \in FloatTokens
      [] typ = "int" -> value \in DOMAIN IntValue

\* len(x) of a list (a sequence) or of a dict (a function on its keys).
PyLen(x) == Cardinality(DOMAIN x)

check_types(values, types) ==
    IF Len(values) # PyLen(types)
    THEN FALSE
    ELSE \A i \in 1..Len(values) : Converts(types[i], values[i])

\* Lines 87-93 of run(): "" when the instruction passes, else the error.
\* check_types is handed the whole opcode table, as in the source.
Validate(instr) ==
    LET op == Head(instr)
        args == Tail(instr)
    IN  IF op \notin DOMAIN opcodes THEN "InvalidOpcode"
        ELSE IF Len(args) # Len(opcodes[op]) THEN "InvalidArgs"
        ELSE IF check_types(args, opcodes) THEN "InvalidTypes"
        ELSE ""

----------------------------------------------------------------------------
(* The lines the input source may hand out *)

Blank == <<>>

Lines ==
    { Blank,
      <<"fd", "a", "10">>, <<"deg", "a">>,
      <<"repeat", "0">>, <<"repeat", "2">>, <<"end">>,
      <<"jump", "a">>, <<"fd", "a">>, <<"fd", "a", "x">>,
      <<"repeat", "x">>, <<"repeat", "-1">> }

----------------------------------------------------------------------------
(* Interpreter *)

InprInit ==
    /\ history = <<>>
    /\ line_no = 0
    /\ num_stack = <<>>
    /\ line_stack = <<>>
    /\ depth = 0
    /\ outfile = <<>>
    /\ gen_pos = 0
    /\ steps = 0
    /\ status = "running"

AtEnd == status = "running" /\ line_no = Len(history)

\* The instruction run() is about to execute (history[line_no]).
Fetch == history[line_no + 1]

CanExec == status = "running" /\ line_no < Len(history)

\* next(self.gen) raises StopIteration: run() returns.
PullEOF ==
    /\ AtEnd
    /\ status' = "returned"
    /\ UNCHANGED <<history, line_no, num_stack, line_stack, depth, outfile,
                   gen_pos, steps>>
    /\ UNCHANGED <<cvars, dvars>>

\* Mutant: the blank line is stored like any other.
PullBlankStored ==
    /\ status = "running" /\ line_no = Len(history)
    /\ gen_pos - Len(history) < MaxBlank
    /\ history' = Append(history, <<>>)
    /\ gen_pos' = gen_pos + 1
    /\ UNCHANGED <<line_no, num_stack, line_stack, depth, outfile, steps,
                   status>>
    /\ UNCHANGED <<cvars, dvars>>

\* A blank line is pulled: `continue`, nothing is stored.
PullBlank ==
    /\ AtEnd
    /\ gen_pos - Len(history) < MaxBlank
    /\ gen_pos' = gen_pos + 1
    /\ UNCHANGED <<history, line_no, num_stack, line_stack, depth, outfile,
                   steps, status>>
    /\ UNCHANGED <<cvars, dvars>>

\* A non-blank line is pulled and appended to history.
PullLine ==
    /\ AtEnd
    /\ Len(history) < MaxHist
    /\ \E instr \in Lines \ {Blank} :
          history' = Append(history, instr)
    /\ gen_pos' = gen_pos + 1
    /\ UNCHANGED <<line_no, num_stack, line_stack, depth, outfile, steps,
                   status>>
    /\ UNCHANGED <<cvars, dvars>>

\* Lines 88-93: the instruction is rejected with an InterpreterError.
ExecInvalid ==
    /\ CanExec
    /\ Validate(Fetch) # ""
    /\ status' = Validate(Fetch)
    /\ steps' = steps + 1
    /\ UNCHANGED <<history, line_no, num_stack, line_stack, depth, outfile,
                   gen_pos>>
    /\ UNCHANGED <<cvars, dvars>>

\* Mutant: a nested `repeat` inside a skipped region is not counted.
SkipDepthFlat(op) == IF op = "end" THEN depth - 1 ELSE depth

\* Lines 95-100: inside a skipped region only the nesting is counted.
SkipDepth(op) ==
    IF op = "repeat" THEN depth + 1
    ELSE IF op = "end" THEN depth - 1
    ELSE depth

ExecSkip ==
    /\ CanExec
    /\ Validate(Fetch) = ""
    /\ depth > 0
    /\ depth' = SkipDepth(Head(Fetch))
    /\ line_no' = line_no + 1
    /\ steps' = steps + 1
    /\ UNCHANGED <<history, num_stack, line_stack, outfile, gen_pos, status>>
    /\ UNCHANGED <<cvars, dvars>>

\* Line 102: int(args[0]) raises ValueError, which run() does not catch.
ExecRepeatValueError ==
    /\ CanExec
    /\ Validate(Fetch) = ""
    /\ depth = 0
    /\ Head(Fetch) = "repeat"
    /\ Fetch[2] \notin DOMAIN IntValue
    /\ status' = "ValueError"
    /\ steps' = steps + 1
    /\ UNCHANGED <<history, line_no, num_stack, line_stack, depth, outfile,
                   gen_pos>>
    /\ UNCHANGED <<cvars, dvars>>

\* Mutant: the iteration that is already running is counted again.
PushedCountOffByOne(times) == times

\* Line 106: the count pushed for `repeat times`.
PushedCount(times) == times - 1

\* Mutant: the stored resume point is one line too far.
ResumePointAfter == line_no + 2

\* Line 107: the resume point pushed for a loop, the line after `repeat`.
ResumePoint == line_no + 1

\* Lines 101-108.
ExecRepeat ==
    /\ CanExec
    /\ Validate(Fetch) = ""
    /\ depth = 0
    /\ Head(Fetch) = "repeat"
    /\ Fetch[2] \in DOMAIN IntValue
    /\ LET times == IntValue[Fetch[2]]
       IN  IF times = 0
           THEN /\ depth' = depth + 1
                /\ UNCHANGED <<num_stack, line_stack>>
           ELSE /\ num_stack' = Append(num_stack, PushedCount(times))
                /\ line_stack' = Append(line_stack, ResumePoint)
                /\ UNCHANGED depth
    /\ line_no' = line_no + 1
    /\ steps' = steps + 1
    /\ UNCHANGED <<history, outfile, gen_pos, status>>
    /\ UNCHANGED <<cvars, dvars>>

Top(s) == s[Len(s)]
Pop(s) == SubSeq(s, 1, Len(s) - 1)

\* Mutant: an unmatched `end` is stepped over.
ExecEndUnmatchedIgnored ==
    /\ status = "running" /\ line_no < Len(history)
    /\ history[line_no + 1] = <<"end">>
    /\ depth = 0
    /\ Len(num_stack) = 0
    /\ line_no' = line_no + 1
    /\ steps' = steps + 1
    /\ UNCHANGED <<history, num_stack, line_stack, depth, outfile, gen_pos,
                   status>>
    /\ UNCHANGED <<cvars, dvars>>

\* Lines 110-111: `end` with an empty loop stack.
ExecEndUnmatched ==
    /\ CanExec
    /\ Validate(Fetch) = ""
    /\ depth = 0
    /\ Head(Fetch) = "end"
    /\ Len(num_stack) = 0
    /\ status' = "UnmatchedEnd"
    /\ steps' = steps + 1
    /\ UNCHANGED <<history, line_no, num_stack, line_stack, depth, outfile,
                   gen_pos>>
    /\ UNCHANGED <<cvars, dvars>>

\* Lines 112-115: the loop is finished.
ExecEndPop ==
    /\ CanExec
    /\ Validate(Fetch) = ""
    /\ depth = 0
    /\ Head(Fetch) = "end"
    /\ Len(num_stack) > 0
    /\ Top(num_stack) = 0
    /\ num_stack' = Pop(num_stack)
    /\ line_stack' = Pop(line_stack)
    /\ line_no' = line_no + 1
    /\ steps' = steps + 1
    /\ UNCHANGED <<history, depth, outfile, gen_pos, status>>
    /\ UNCHANGED <<cvars, dvars>>

\* Mutant: the remaining count is left as it is.
DecrementedNot(n) == n

\* Line 117: `self.num_stack[-1] -= 1`.
Decremented(n) == n - 1

\* Lines 116-118: one more iteration, from the stored resume point.
ExecEndJump ==
    /\ CanExec
    /\ Validate(Fetch) = ""
    /\ depth = 0
    /\ Head(Fetch) = "end"
    /\ Len(num_stack) > 0
    /\ Top(num_stack) # 0
    /\ Top(num_stack) > -MaxNeg
    /\ num_stack' = [num_stack EXCEPT ![Len(num_stack)] = Decremented(@)]
    /\ line_no' = Top(line_stack)
    /\ steps' = steps + 1
    /\ UNCHANGED <<history, line_stack, depth, outfile, gen_pos, status>>
    /\ UNCHANGED <<cvars, dvars>>

\* Lines 119-121 and basic_interpret: the instruction goes to the sink.
ExecBasic ==
    /\ CanExec
    /\ Validate(Fetch) = ""
    /\ depth = 0
    /\ Head(Fetch) \notin {"repeat", "end"}
    /\ outfile' = Append(outfile, Fetch)
    /\ line_no' = line_no + 1
    /\ steps' = steps + 1
    /\ UNCHANGED <<history, num_stack, line_stack, depth, gen_pos, status>>
    /\ UNCHANGED <<cvars, dvars>>

InprNext ==
    \/ PullEOF
    \/ PullBlank
    \/ PullLine
    \/ ExecInvalid
    \/ ExecSkip
    \/ ExecRepeatValueError
    \/ ExecRepeat
    \/ ExecEndUnmatched
    \/ ExecEndPop
    \/ ExecEndJump
    \/ ExecBasic

----------------------------------------------------------------------------
(* turtle_nlp.py: the dependency tree                                       *)
(*                                                                          *)
(* A Word object is named by its position in the sentence's words_list.    *)
(* A tree t is the state of all Word objects of a sentence:                 *)
(*   t.text[w], t.word_no[w], t.pos[w]   the fields set by Word.__init__    *)
(*   t.edges[w]      the dict label -> list of words (DOMAIN = its keys)    *)
(*   t.word_objs[w]  the span, t.word_strs[w] the set of texts in it        *)
(* Word.phrase is always assigned together with word_objs, as the joined    *)
(* texts of word_objs: it is the operator Phrase.  Reading a missing key    *)
(* of the defaultdict `edges` yields []; that such a read also stores the   *)
(* key is not modelled: the keys so stored ('cc', 'conj' at a word handed   *)
(* to convert, 'conj' at a name word) are never tested with `in` at that    *)
(* word again before delete_edges drops them.                               *)

\* str.lower() on the vocabulary of the model
LowerMap ==
    ("Bob" :> "bob") @@ ("Amy" :> "amy") @@ ("Move" :> "move")
    @@ ("Do" :> "do")

Lower(s) == IF s \in DOMAIN LowerMap THEN LowerMap[s] ELSE s

\* The labels of the annotation service that the compiler reads, in a
\* fixed order used to enumerate a dict's lists.
LabelOrder ==
    <<"dobj", "nummod", "det", "acl", "xcomp", "compound", "cc", "conj",
      "nmod", "advmod", "dep">>

RECURSIVE Concat(_)
Concat(ss) == IF ss = <<>> THEN <<>> ELSE Head(ss) \o Concat(Tail(ss))

SeqToSet(s) == {s[i] : i \in 1..Len(s)}

Reverse(s) == [i \in 1..Len(s) |-> s[Len(s) + 1 - i]]

\* word.edges[label] of the defaultdict
EdgeList(t, w, label) ==
    IF label \in DOMAIN t.edges[w] THEN t.edges[w][label] ELSE <<>>

\* Word.get(edge_seq)
RECURSIVE Get(_, _, _)
Get(t, ws, edge_seq) ==
    IF edge_seq = <<>> THEN ws
    ELSE Get(t,
             Concat([i \in 1..Len(ws) |-> EdgeList(t, ws[i], Head(edge_seq))]),
             Tail(edge_seq))

\* Word.add_edge
add_edge(t, w, edge_type, word) ==
    [t EXCEPT !.edges[w] =
        (edge_type :> Append(EdgeList(t, w, edge_type), word)) @@ @]

\* Word.children_iter: the lists of the dict, one after the other
children_iter(t, w) ==
    Concat([i \in 1..Len(LabelOrder) |-> EdgeList(t, w, LabelOrder[i])])

\* sorted(words, key=word_no): a stable insertion sort
RECURSIVE SortWords(_, _)
SortWords(t, s) ==
    IF s = <<>> THEN <<>>
    ELSE LET rest == SortWords(t, Tail(s))
             x == Head(s)
             k == Cardinality({i \in 1..Len(rest) :
                                 t.word_no[rest[i]] < t.word_no[x]})
         IN  SubSeq(rest, 1, k) \o <<x>> \o SubSeq(rest, k + 1, Len(rest))

\* Word.phrase: ' '.join(w.text for w in word_objs), as the list of texts
Phrase(t, w) == [i \in 1..Len(t.word_objs[w]) |-> t.text[t.word_objs[w][i]]]

\* Lines 139-147 and 160-168: the span of `word` from the spans of its
\* children, children left of the word first.
SpanFromChildren(t, w, kids) ==
    LET IsLeft(k) == t.word_no[k] < t.word_no[w]
        IsRight(k) == ~IsLeft(k)
        left == SelectSeq(kids, IsLeft)
        right == SelectSeq(kids, IsRight)
        Objs(ks) == Concat([i \in 1..Len(ks) |-> t.word_objs[ks[i]]])
    IN  [t EXCEPT
            !.word_objs[w] = Objs(left) \o <<w>> \o Objs(right),
            !.word_strs[w] =
                {t.text[w]} \cup UNION {t.word_strs[k] : k \in SeqToSet(kids)}]

\* find_phrase: every list of the word is sorted, the children's spans are
\* computed first, in sentence order.
RECURSIVE find_phrase(_, _)
RECURSIVE FindKids(_, _, _)
FindKids(t, kids, i) ==
    IF i > Len(kids) THEN t
    ELSE FindKids(find_phrase(t, kids[i]), kids, i + 1)

find_phrase(t, w) ==
    LET t1 == [t EXCEPT !.edges[w] =
                 [l \in DOMAIN @ |-> SortWords(t, @[l])]]
        sorted_words == SortWords(t1, children_iter(t1, w))
        t2 == FindKids(t1, sorted_words, 1)
    IN  SpanFromChildren(t2, w, sorted_words)

\* Mutant: the conj edges are kept.
delete_edges_keep_conj(t, w, labels_to_del) ==
    LET t1 == [t EXCEPT !.edges[w] =
                 [l \in (DOMAIN @) \ (labels_to_del \ {"conj"}) |-> @[l]]]
        sorted_words == SortWords(t1, children_iter(t1, w))
    IN  SpanFromChildren(t1, w, sorted_words)

\* delete_edges: the labels are dropped from the word's dict and its span
\* is rebuilt from the stored spans of the children that remain.
delete_edges(t, w, labels_to_del) ==
    LET t1 == [t EXCEPT !.edges[w] =
                 [l \in (DOMAIN @) \ labels_to_del |-> @[l]]]
        sorted_words == SortWords(t1, children_iter(t1, w))
    IN  SpanFromChildren(t1, w, sorted_words)

\* list[k] of Python for a list of n items: the position (1-based) or 0
\* for an IndexError; a negative k counts from the end.
PyIndex(n, k) ==
    IF 0 <= k /\ k < n THEN k + 1
    ELSE IF -n <= k /\ k < 0 THEN n + k + 1
    ELSE 0

\* Lines 183-192: one Word per token.
NewWords(tokens) ==
    [text |-> [i \in 1..Len(tokens) |-> tokens[i].word],
     word_no |-> [i \in 1..Len(tokens) |-> tokens[i].index],
     pos |-> [i \in 1..Len(tokens) |-> tokens[i].pos],
     edges |-> [i \in 1..Len(tokens) |-> <<>>],
     word_objs |-> [i \in 1..Len(tokens) |-> <<>>],
     word_strs |-> [i \in 1..Len(tokens) |-> {}]]

\* Lines 194-203: the edges are attached in the order given; an edge with
\* governor 0 names the root (the last such edge wins).  The result is
\* [exc, t, root]; root = 0 stands for None.
RECURSIVE AttachEdges(_, _, _)
AttachEdges(acc, deps, i) ==
    IF i > Len(deps) \/ acc.exc # "" THEN acc
    ELSE LET edge == deps[i]
             n == Len(acc.t.text)
             dependent == PyIndex(n, edge.dependent - 1)
             governor == PyIndex(n, edge.governor - 1)
         IN  IF dependent = 0 THEN [acc EXCEPT !.exc = "IndexError"]
             ELSE IF edge.governor = 0
             THEN AttachEdges([acc EXCEPT !.root = dependent], deps, i + 1)
             ELSE IF governor = 0 THEN [acc EXCEPT !.exc = "IndexError"]
             ELSE AttachEdges(
                      [acc EXCEPT !.t = add_edge(@, governor, edge.dep,
                                                 dependent)],
                      deps, i + 1)

\* parse_sentence: the tree with its spans, or the exception raised.
parse_sentence(sentence) ==
    LET acc == AttachEdges([exc |-> "", t |-> NewWords(sentence.tokens),
                            root |-> 0],
                           sentence.deps, 1)
    IN  IF acc.exc # "" THEN acc
        ELSE IF acc.root = 0 THEN [acc EXCEPT !.exc = "AttributeError"]
        ELSE [acc EXCEPT !.t = find_phrase(@, acc.root)]

----------------------------------------------------------------------------
(* turtle_nlp.py: compile errors                                            *)

\* The outcome of a call: kind is "ok" (val is the value returned), "none"
\* (None was returned), "CEList" (val is the list of errors raised) or
\* "exc" (val names another exception); t is the tree after the call.
Ok(val, t) == [kind |-> "ok", val |-> val, t |-> t]
RetNone(t) == [kind |-> "none", val |-> <<>>, t |-> t]
RaiseCEList(errors, t) == [kind |-> "CEList", val |-> errors, t |-> t]
RaiseExc(name, t) == [kind |-> "exc", val |-> name, t |-> t]

\* An errcode is whatever object the constructor was handed.
StrCode(s) == [type |-> "str", v |-> s]
ListCode(l) == [type |-> "list", v |-> l]

\* The empty string and the empty list are false.
Falsy(code) ==
    IF code.type = "str" THEN code.v = "" ELSE Len(code.v) = 0

\* CompileError.__init__ called from a subclass as
\* CompileError.__init__(self, word, errcode or dflt)
CompileError(cls, word, errcode, dflt, param, value) ==
    [cls |-> cls,
     errcode |-> IF Falsy(errcode) THEN StrCode(dflt) ELSE errcode,
     word |-> word, param |-> param, value |-> value, csr_list |-> <<>>]

NoCSRCE(word) ==
    CompileError("NoCSRCE", word, StrCode(""), "NOCSR", "", "")

\* ManyCSRCE.__init__(self, word, errcode='', csr_list=())
ManyCSRCE(word, errcode, csr_list) ==
    [CompileError("ManyCSRCE", word, errcode, "MANYCSR", "", "")
        EXCEPT !.csr_list = csr_list]

MissingDataCE(word, param) ==
    CompileError("MissingDataCE", word, StrCode(""), "NODATA", param, "")

BadDataCE(word, param, value) ==
    CompileError("BadDataCE", word, StrCode(""), "BADDATA", param, value)

\* BadCCCE(word, objtype=..., cc=...)
BadCCCE(word, objtype, cc) ==
    CompileError("BadCCCE", word, StrCode(""), "BADCC", objtype, cc)

TooManyValuesCE(word, param) ==
    CompileError("TooManyValuesCE", word, StrCode(""), "MANYVAL", param, "")

\* CEList.errcodes
errcodes(errors) == [i \in 1..Len(errors) |-> errors[i].errcode]

----------------------------------------------------------------------------
(* turtle_nlp.py: get_names *)

Texts(t, ws) == [i \in 1..Len(ws) |-> t.text[ws[i]]]

is_name_word(t, x, include_others) ==
    \/ t.pos[x] = "NNP"
    \/ (include_others /\ t.text[x] \in {"turtle", "everyone"})

\* Lines 246-257 for one candidate: acc is [names, errlist].
NameStep(t, dobj_word, include_others, acc, name) ==
    IF is_name_word(t, name, include_others)
    THEN [acc EXCEPT !.names = Append(@, name)]
    ELSE IF "compound" \in DOMAIN t.edges[name]
    THEN LET compound_edges == t.edges[name]["compound"]
         IN  IF Len(compound_edges) = 1
                  /\ is_name_word(t, compound_edges[1], include_others)
             THEN [acc EXCEPT !.names = Append(@, compound_edges[1])]
             ELSE acc
    ELSE [acc EXCEPT !.errlist =
            Append(@, BadDataCE(dobj_word, "name", t.text[name]))]

RECURSIVE NameLoop(_, _, _, _, _, _)
NameLoop(t, dobj_word, include_others, acc, and_names, i) ==
    IF i > Len(and_names) THEN acc
    ELSE NameLoop(t, dobj_word, include_others,
                  NameStep(t, dobj_word, include_others, acc, and_names[i]),
                  and_names, i + 1)

\* get_names(dobj_word, include_others, errlist): [names, errlist]
get_names(t, dobj_word, include_others, errlist) ==
    LET keys == DOMAIN t.edges[dobj_word]
        errlist1 ==
            IF "cc" \in keys /\ "conj" \in keys
                 /\ Texts(t, t.edges[dobj_word]["cc"]) # <<"and">>
            THEN Append(errlist, BadCCCE(dobj_word, "Turtle names", "and"))
            ELSE errlist
        and_names == <<dobj_word>> \o EdgeList(t, dobj_word, "conj")
    IN  NameLoop(t, dobj_word, include_others,
                 [names |-> <<>>, errlist |-> errlist1], and_names, 1)

LowerTexts(t, ws) == [i \in 1..Len(ws) |-> Lower(t.text[ws[i]])]

----------------------------------------------------------------------------
(* turtle_nlp.py: MakeCSR *)

MakeActions ==
    [make |-> "create", create |-> "create", build |-> "create",
     spawn |-> "create", destroy |-> "destroy", remove |-> "destroy",
     kill |-> "destroy"]

\* MakeCSR.detect
MakeDetect(t, word) ==
    LET IsAction(w) == Lower(t.text[w]) \in DOMAIN MakeActions
                          /\ t.pos[w] = "VB"
        action_words == SelectSeq(t.word_objs[word], IsAction)
        action_word == action_words[1]
        action == MakeActions[Lower(t.text[action_word])]
        dobj_words == Get(t, <<action_word>>, <<"dobj">>)
        errlist0 == IF Len(dobj_words) > 1
                    THEN <<TooManyValuesCE(word, "direct object")>>
                    ELSE <<>>
        dobj_word == dobj_words[1]
        dobj_dets == Texts(t, Get(t, <<dobj_word>>, <<"det">>))
        acl_xcomp_roots == Get(t, <<dobj_word>>, <<"acl", "xcomp">>)
        \* lines 307-310
        first == IF acl_xcomp_roots # <<>>
                 THEN get_names(t, acl_xcomp_roots[1], action # "create",
                                errlist0)
                 ELSE [names |-> <<>>, errlist |-> errlist0]
        \* check_acl_xcomp_roots(): raises, or extends the error list
        CheckRaises == Len(acl_xcomp_roots) = 0
        Checked(acc) ==
            IF Len(acl_xcomp_roots) > 1
            THEN [acc EXCEPT !.errlist =
                    Append(@, TooManyValuesCE(dobj_word, "names"))]
            ELSE acc
        BadDet(acc) ==
            [acc EXCEPT !.errlist =
                Append(@, BadDataCE(dobj_word, "turtle determinant",
                                    dobj_dets[1]))]
        \* lines 336-339
        Counted(acc) ==
            IF Len(acc.names) > 1
            THEN [acc EXCEPT !.errlist =
                    Append(@, TooManyValuesCE(dobj_word, "names"))]
            ELSE IF Len(acc.names) = 0
            THEN [acc EXCEPT !.errlist =
                    Append(@, MissingDataCE(dobj_word, "names"))]
            ELSE acc
        \* lines 318-341: does check_acl_xcomp_roots() raise, and if not
        \* the names and errors after the branch
        callsCheck ==
            IF t.text[dobj_word] = "turtles" THEN TRUE
            ELSE IF t.text[dobj_word] = "turtle"
            THEN IF action = "create"
                 THEN dobj_dets = <<"a">> \/ dobj_dets = <<>>
                 ELSE IF dobj_dets = <<"the">>
                 THEN Len(acl_xcomp_roots) > 0
                 ELSE dobj_dets = <<>>
            ELSE FALSE
        final ==
            IF t.text[dobj_word] = "turtles" THEN Checked(first)
            ELSE IF t.text[dobj_word] = "turtle"
            THEN Counted(
                   IF callsCheck THEN Checked(first)
                   ELSE IF action # "create" /\ dobj_dets = <<"the">>
                   THEN [first EXCEPT !.names = <<dobj_word>>]
                   ELSE BadDet(first))
            ELSE get_names(t, dobj_word, action # "create", first.errlist)
        params == [action |-> action, names |-> LowerTexts(t, final.names)]
    IN  IF Len(action_words) # 1 THEN RetNone(t)
        ELSE IF Len(dobj_words) = 0
        THEN RaiseCEList(<<MissingDataCE(word, "direct object")>>, t)
        ELSE IF callsCheck /\ CheckRaises
        THEN RaiseCEList(<<MissingDataCE(dobj_word, "names")>>, t)
        ELSE IF final.errlist # <<>> THEN RaiseCEList(final.errlist, t)
        ELSE Ok(params, t)

\* MakeCSR.apply
MakeApply(t, word, params) ==
    IF params.action = "destroy" /\ "everyone" \in SeqToSet(params.names)
    THEN Ok(<< <<"destroy", "everyone">> >>, t)
    ELSE Ok([i \in 1..Len(params.names) |->
                <<params.action, params.names[i]>>], t)

----------------------------------------------------------------------------
(* turtle_nlp.py: MoveCSR *)

MoveDirections ==
    [ahead |-> "fd", forward |-> "fd", forwards |-> "fd",
     backward |-> "bk", backwards |-> "bk",
     up |-> "up", upward |-> "up", upwards |-> "up",
     down |-> "down", downward |-> "down", downwards |-> "down",
     left |-> "left", leftward |-> "left", leftwards |-> "left",
     anticlockwise |-> "left", counterclockwise |-> "left",
     right |-> "right", rightward |-> "right", rightwards |-> "right",
     clockwise |-> "right"]

MoveUnits ==
    [unit |-> "pixel", units |-> "pixel", step |-> "pixel",
     steps |-> "pixel", pixel |-> "pixel", pixels |-> "pixel",
     degree |-> "deg", degrees |-> "deg",
     radian |-> "rad", radians |-> "rad"]

MoveActions == [move |-> "move", turn |-> "turn", rotate |-> "turn"]

\* MoveCSR.detect
MoveDetect(t, word) ==
    LET IsAction(w) == Lower(t.text[w]) \in DOMAIN MoveActions
                          /\ t.pos[w] = "VB"
        IsDirection(w) == t.text[w] \in DOMAIN MoveDirections
        IsUnit(w) == t.text[w] \in DOMAIN MoveUnits
        action_words == SelectSeq(t.word_objs[word], IsAction)
        direction_words == SelectSeq(t.word_objs[word], IsDirection)
        unit_words == SelectSeq(t.word_objs[word], IsUnit)
        action_word == action_words[1]
        unit_word == unit_words[1]
        nummods == Get(t, <<unit_word>>, <<"nummod">>)
        errlist0 == IF Len(direction_words) = 0
                    THEN <<MissingDataCE(word, "direction")>>
                    ELSE <<>>
        dobj_words == Get(t, <<action_word>>, <<"dobj">>)
        errlist1 == IF Len(dobj_words) > 1
                    THEN Append(errlist0,
                                TooManyValuesCE(word, "direct object"))
                    ELSE errlist0
        found == get_names(t, dobj_words[1], TRUE, errlist1)
        params ==
            [action |-> MoveActions[Lower(t.text[action_word])],
             unit |-> MoveUnits[t.text[unit_word]],
             amount |-> t.text[nummods[1]],
             direction |-> MoveDirections[t.text[direction_words[1]]],
             names |-> LowerTexts(t, found.names)]
    IN  IF ~(Len(action_words) = 1 /\ Len(unit_words) = 1) THEN RetNone(t)
        ELSE IF Len(nummods) = 0 THEN RetNone(t)
        \* line 444: the name TooManyValues is not defined
        ELSE IF Len(direction_words) > 1 THEN RaiseExc("NameError", t)
        ELSE IF Len(dobj_words) = 0
        THEN RaiseCEList(<<MissingDataCE(word, "direct object")>>, t)
        ELSE IF found.errlist # <<>> THEN RaiseCEList(found.errlist, t)
        ELSE Ok(params, t)

\* str(float(s)) for the amounts of the model; other strings raise
\* ValueError in float().
FloatStr ==
    ("0" :> "0.0") @@ ("1" :> "1.0") @@ ("2" :> "2.0") @@ ("3" :> "3.0")
    @@ ("-1" :> "-1.0") @@ ("10" :> "10.0") @@ ("90" :> "90.0")
    @@ ("2.5" :> "2.5") @@ ("10.0" :> "10.0") @@ ("90.0" :> "90.0")

\* [' '.join([op, name, str(amount)]) for name in names]
MoveLines(op, names, amount) ==
    [i \in 1..Len(names) |-> <<op, names[i], amount>>]

\* [' '.join([unit, name]) for name in names]
UnitLines(unit, names) == [i \in 1..Len(names) |-> <<unit, names[i]>>]

\* Mutant: the two sideways opcodes are exchanged.
ShiftOpSwapped(direction) == IF direction = "left" THEN "shr" ELSE "shl"

\* The opcode of a sideways move (lines 478-481).
ShiftOp(direction) == IF direction = "left" THEN "shl" ELSE "shr"

\* MoveCSR.apply
MoveApply(t, word, params) ==
    LET raw_amount == params.amount
        amount == FloatStr[raw_amount]
        action == params.action
        unit == params.unit
        direction == params.direction
        names == params.names
        \* lines 473-494: [bound, output, errlist]; bound tells whether
        \* the name `output` was assigned
        moveErr == IF unit # "pixel"
                   THEN <<BadDataCE(word, "movement unit", unit)>>
                   ELSE <<>>
        res ==
            IF action = "move"
            THEN IF direction \in {"fd", "bk", "up", "down"}
                 THEN [bound |-> TRUE, errlist |-> moveErr,
                       output |-> MoveLines(direction, names, amount)]
                 ELSE IF direction \in {"left", "right"}
                 THEN [bound |-> TRUE, errlist |-> moveErr,
                       output |-> MoveLines(ShiftOp(direction), names,
                                            amount)]
                 ELSE [bound |-> FALSE, output |-> <<>>,
                       errlist |-> Append(moveErr,
                          BadDataCE(word, "movement direction", direction))]
            ELSE IF action = "turn"
            THEN IF unit \in {"deg", "rad"}
                 THEN IF direction = "left"
                      THEN [bound |-> TRUE, errlist |-> <<>>,
                            output |-> UnitLines(unit, names)
                                \o MoveLines("rol", names, amount)]
                      ELSE IF direction = "right"
                      THEN [bound |-> TRUE, errlist |-> <<>>,
                            output |-> UnitLines(unit, names)
                                \o MoveLines("ror", names, amount)]
                      ELSE [bound |-> TRUE,
                            output |-> UnitLines(unit, names),
                            errlist |-> <<BadDataCE(word,
                                "rotational direction", direction)>>]
                 ELSE [bound |-> FALSE, output |-> <<>>,
                       errlist |-> <<BadDataCE(word, "rotational unit",
                                               unit)>>]
            ELSE [bound |-> FALSE, output |-> <<>>, errlist |-> <<>>]
    IN  IF raw_amount \notin DOMAIN FloatStr
        THEN RaiseCEList(<<BadDataCE(word, "number", raw_amount)>>, t)
        ELSE IF res.errlist # <<>> THEN RaiseCEList(res.errlist, t)
        ELSE IF ~res.bound THEN RaiseExc("UnboundLocalError", t)
        ELSE Ok(res.output, t)

----------------------------------------------------------------------------
(* turtle_nlp.py: AndCSR *)

\* str(n) for the values of int()
IntStr(n) == CHOOSE s \in {"0", "1", "2", "3", "-1", "10", "90"} :
                IntValue[s] = n

\* An element of the list AndCSR.detect returns: a line or a Word.
LineItem(line) == [isword |-> FALSE, word |-> 0, line |-> line]
WordItem(w) == [isword |-> TRUE, word |-> w, line |-> <<>>]

\* Lines 523-548 for one part: acc is [kind, val, stack, output], kind
\* "ok" until an exception is raised.
AndPart(t, acc, word) ==
    LET IsTimes(x) == t.text[x] = "times"
        times_words == SelectSeq(t.word_objs[word], IsTimes)
        nummods == Get(t, <<times_words[1]>>, <<"nummod">>)
        amount_str == t.text[nummods[1]]
        strs == t.word_strs[word]
        Push(n) == [acc EXCEPT !.stack = Append(@, n),
                               !.output = Append(@, LineItem(<<"end">>))]
        Missing == [acc EXCEPT !.kind = "CEList",
                      !.val = <<MissingDataCE(word, "loop repetitions")>>]
    IN  IF Lower(t.text[word]) \in {"do", "repeat"}
        THEN IF Len(times_words) > 1
             \* TooManyOccsCE.__init__ reads the undefined name errcode
             THEN [acc EXCEPT !.kind = "exc", !.val = "NameError"]
             ELSE IF Len(times_words) = 1
             THEN IF Len(nummods) = 0 THEN Missing
                  ELSE IF amount_str \notin DOMAIN IntValue
                  THEN [acc EXCEPT !.kind = "CEList",
                          !.val = <<BadDataCE(word, "loop repetitions",
                                              amount_str)>>]
                  ELSE Push(IntValue[amount_str])
             ELSE IF "once" \in strs THEN Push(1)
             ELSE IF "twice" \in strs THEN Push(2)
             ELSE IF "thrice" \in strs THEN Push(3)
             ELSE Missing
        ELSE [acc EXCEPT !.output = Append(@, WordItem(word))]

\* for word in reversed(parts): the parts from index i down to 1
RECURSIVE AndLoop(_, _, _, _)
AndLoop(t, acc, parts, i) ==
    IF i = 0 \/ acc.kind # "ok" THEN acc
    ELSE AndLoop(t, AndPart(t, acc, parts[i]), parts, i - 1)

\* Mutant: the output collected in reverse is not reversed again.
AndParamsUnreversed(stack, output) ==
    [i \in 1..Len(stack) |-> [isword |-> FALSE, word |-> 0,
                              line |-> <<"repeat", IntStr(stack[i])>>]]
    \o output

\* Mutant: the `repeat` lines are left out.
AndParamsNoRepeat(stack, output) == Reverse(output)

\* Line 550: the list returned from the stack and the output.
AndParams(stack, output) ==
    [i \in 1..Len(stack) |-> LineItem(<<"repeat", IntStr(stack[i])>>)]
    \o Reverse(output)

\* Mutant: the text of the cc words is not looked at.
BadCcWordsUnchecked(t, cc_words) == <<>>

\* Lines 512-514: the cc words whose text is not 'and'.
BadCcWords(t, cc_words) ==
    LET IsNotAnd(x) == t.text[x] # "and"
    IN  SelectSeq(cc_words, IsNotAnd)

\* AndCSR.detect
AndDetect(t, word) ==
    LET conj_words == Get(t, <<word>>, <<"conj">>)
        cc_words == Get(t, <<word>>, <<"cc">>)
        bad_cc == BadCcWords(t, cc_words)
        t1 == delete_edges(t, word, {"conj", "cc"})
        parts == <<word>> \o conj_words
        acc == AndLoop(t1, [kind |-> "ok", val |-> <<>>, stack |-> <<>>,
                            output |-> <<>>], parts, Len(parts))
    IN  \* line 507: the name errmsg is not defined
        IF (conj_words # <<>>) # (cc_words # <<>>)
        THEN RaiseExc("NameError", t)
        ELSE IF conj_words = <<>> THEN RetNone(t)
        ELSE IF bad_cc # <<>>
        THEN RaiseCEList(<<BadDataCE(word, "cc", t.text[bad_cc[1]])>>, t)
        ELSE IF acc.kind = "CEList" THEN RaiseCEList(acc.val, t1)
        ELSE IF acc.kind = "exc" THEN RaiseExc(acc.val, t1)
        ELSE Ok(AndParams(acc.stack, acc.output), t1)

RECURSIVE convert(_, _)

\* AndCSR.apply: the parts are converted one after the other; acc is the
\* outcome so far, its val the lines collected.
RECURSIVE AndApplyLoop(_, _, _)
AndApplyLoop(acc, params, i) ==
    LET \* output.extend(r) for the outcome r of convert(x)
        Extend(r) ==
            IF r.kind = "ok"
            THEN AndApplyLoop(Ok(acc.val \o r.val, r.t), params, i + 1)
            ELSE r
    IN  IF i > Len(params) \/ acc.kind # "ok" THEN acc
        ELSE IF params[i].isword
        THEN Extend(convert(acc.t, params[i].word))
        ELSE AndApplyLoop(Ok(Append(acc.val, params[i].line), acc.t),
                          params, i + 1)

AndApply(t, word, params) == AndApplyLoop(Ok(<<>>, t), params, 1)

----------------------------------------------------------------------------
(* turtle_nlp.py: the CSR framework *)

terminal_CSRs == <<"MakeCSR", "MoveCSR">>
nonterminal_CSRs == <<"AndCSR">>

\* csr.detect(word)
Detect(csr, t, word) ==
    CASE csr = "MakeCSR" -> MakeDetect(t, word)
      [] csr = "MoveCSR" -> MoveDetect(t, word)
      [] csr = "AndCSR" -> AndDetect(t, word)

\* csr.apply(word, params)
Apply(csr, t, word, params) ==
    CASE csr = "MakeCSR" -> MakeApply(t, word, params)
      [] csr = "MoveCSR" -> MoveApply(t, word, params)
      [] csr = "AndCSR" -> AndApply(t, word, params)

\* get_csrs: val is the dict csr -> params as a list of [csr, params],
\* in the order of the pool; an exception of a detect ends the loop.
RECURSIVE GetCsrsLoop(_, _, _, _)
GetCsrsLoop(acc, word, csr_list, i) ==
    LET \* lines 563-565 for the outcome r of csr.detect(word)
        Store(r) ==
            IF r.kind = "none"
            THEN GetCsrsLoop(Ok(acc.val, r.t), word, csr_list, i + 1)
            ELSE IF r.kind = "ok"
            THEN GetCsrsLoop(
                   Ok(Append(acc.val, [csr |-> csr_list[i],
                                       params |-> r.val]), r.t),
                   word, csr_list, i + 1)
            ELSE r
    IN  IF i > Len(csr_list) \/ acc.kind # "ok" THEN acc
        ELSE Store(Detect(csr_list[i], acc.t, word))

get_csrs(t, word, csr_list) == GetCsrsLoop(Ok(<<>>, t), word, csr_list, 1)

\* Line 571: ManyCSRCE(word, list(csr_params.keys())): the list of CSRs is
\* the second positional argument, which is errcode.
ManyCSRError(word, csrs) == ManyCSRCE(word, ListCode(csrs), <<>>)

apply_csrs(t, word, csr_list) ==
    LET \* lines 570-577 for the outcome found of get_csrs
        Choose(found) ==
            IF found.kind # "ok" THEN found
            ELSE IF Len(found.val) > 1
            THEN RaiseCEList(
                   <<ManyCSRError(word,
                        [i \in 1..Len(found.val) |-> found.val[i].csr])>>,
                   found.t)
            ELSE IF Len(found.val) = 1
            THEN Apply(found.val[1].csr, found.t, word, found.val[1].params)
            ELSE RetNone(found.t)
    IN  Choose(get_csrs(t, word, csr_list))

\* `x or y` of Python keeps x unless x is None or an empty list.
Truthy(r) == r.kind = "ok" /\ r.val # <<>>

convert(t, word) ==
    LET \* lines 591-593 for the value of the `or` expression
        Checked(output) ==
            IF output.kind = "none"
            THEN RaiseCEList(<<NoCSRCE(word)>>, output.t)
            ELSE output
        \* the `or` for the outcome first of its left operand
        OrElse(first) ==
            IF first.kind \in {"CEList", "exc"} THEN first
            ELSE IF Truthy(first) THEN first
            ELSE Checked(apply_csrs(first.t, word, terminal_CSRs))
    IN  OrElse(apply_csrs(t, word, nonterminal_CSRs))

----------------------------------------------------------------------------
(* The sentences the annotation service may hand to parse_sentence         *)

Tok(word, pos) == [word |-> word, pos |-> pos]
Dep(governor, dep, dependent) ==
    [governor |-> governor, dep |-> dep, dependent |-> dependent]

\* A clause: its tokens, the index of its head, its edges (local indices).
MoveClause(verb, amount, unit, direction) ==
    [tokens |-> <<Tok(verb, "VB"), Tok("Bob", "NNP"), Tok(amount, "CD"),
                  Tok(unit, "NNS"), Tok(direction, "RB")>>,
     head |-> 1,
     deps |-> <<Dep(1, "dobj", 2), Dep(1, "nmod", 4), Dep(4, "nummod", 3),
                Dep(1, "advmod", 5)>>]

Clauses ==
    { MoveClause("move", "10", "steps", "forward"),
      MoveClause("turn", "90", "degrees", "left"),
      MoveClause("move", "10", "degrees", "forward"),
      MoveClause("move", "ten", "steps", "forward"),
      \* Move Bob and Amy 10 steps left
      [tokens |-> <<Tok("Move", "VB"), Tok("Bob", "NNP"), Tok("and", "CC"),
                    Tok("Amy", "NNP"), Tok("10", "CD"), Tok("steps", "NNS"),
                    Tok("left", "RB")>>,
       head |-> 1,
       deps |-> <<Dep(1, "dobj", 2), Dep(2, "cc", 3), Dep(2, "conj", 4),
                  Dep(1, "nmod", 6), Dep(6, "nummod", 5),
                  Dep(1, "advmod", 7)>>],
      \* make Bob
      [tokens |-> <<Tok("make", "VB"), Tok("Bob", "NNP")>>,
       head |-> 1,
       deps |-> <<Dep(1, "dobj", 2)>>],
      \* do this twice
      [tokens |-> <<Tok("do", "VB"), Tok("this", "DT"), Tok("twice", "RB")>>,
       head |-> 1,
       deps |-> <<Dep(1, "dobj", 2), Dep(1, "advmod", 3)>>],
      \* repeat 3 times
      [tokens |-> <<Tok("repeat", "VB"), Tok("3", "CD"),
                    Tok("times", "NNS")>>,
       head |-> 1,
       deps |-> <<Dep(1, "nmod", 3), Dep(3, "nummod", 2)>>],
      \* make Bob move Amy 10 steps forward
      [tokens |-> <<Tok("make", "VB"), Tok("Bob", "NNP"), Tok("move", "VB"),
                    Tok("Amy", "NNP"), Tok("10", "CD"), Tok("steps", "NNS"),
                    Tok("forward", "RB")>>,
       head |-> 1,
       deps |-> <<Dep(1, "dobj", 2), Dep(1, "xcomp", 3), Dep(3, "dobj", 4),
                  Dep(3, "nmod", 6), Dep(6, "nummod", 5),
                  Dep(3, "advmod", 7)>>],
      \* now go
      [tokens |-> <<Tok("now", "RB"), Tok("go", "VB")>>,
       head |-> 2,
       deps |-> <<Dep(2, "advmod", 1)>>],
      \* move red thing 10 steps forward
      [tokens |-> <<Tok("move", "VB"), Tok("red", "JJ"), Tok("thing", "NN"),
                    Tok("10", "CD"), Tok("steps", "NNS"),
                    Tok("forward", "RB")>>,
       head |-> 1,
       deps |-> <<Dep(1, "dobj", 3), Dep(3, "compound", 2),
                  Dep(1, "nmod", 5), Dep(5, "nummod", 4),
                  Dep(1, "advmod", 6)>>] }

\* The sentence "c1 c2 ... cc cn": the head of c1 is the root, the heads
\* of the other clauses are its conj children, the word cc its cc child.
MkSentence(cs, cc) ==
    LET n == Len(cs)
        hascc == cc # ""
        Size(i) == Len(cs[i].tokens)
        Before[i \in 1..n] == IF i = 1 THEN 0 ELSE Before[i - 1] + Size(i - 1)
        Off(i) == Before[i] + (IF hascc /\ i = n THEN 1 ELSE 0)
        toks == Concat([i \in 1..n |->
                    (IF hascc /\ i = n THEN <<Tok(cc, "CC")>> ELSE <<>>)
                    \o cs[i].tokens])
        Shift(i) == [k \in 1..Len(cs[i].deps) |->
                        Dep(cs[i].deps[k].governor + Off(i),
                            cs[i].deps[k].dep,
                            cs[i].deps[k].dependent + Off(i))]
        head == cs[1].head + Off(1)
    IN  [tokens |-> [i \in 1..Len(toks) |->
                        [word |-> toks[i].word, index |-> i,
                         pos |-> toks[i].pos]],
         deps |-> <<Dep(0, "ROOT", head)>>
                  \o Concat([i \in 1..n |-> Shift(i)])
                  \o (IF hascc THEN <<Dep(head, "cc", Before[n] + 1)>>
                      ELSE <<>>)
                  \o [i \in 1..(n - 1) |->
                        Dep(head, "conj", Off(i + 1) + cs[i + 1].head)]]

\* Sequences of 1..n elements of S
SeqsUpTo(S, n) == UNION {[1..k -> S] : k \in 1..n}

\* A sentence of one clause, or of several joined by a conjunction.
Conjunctions == {"and", "or"}

\* Sentences whose root has only one of the labels cc and conj: two
\* clauses without a conjunction, or a conjunction before a lone clause.
OneLabelArgs ==
    {[clauses |-> cs, cc |-> ""] : cs \in [1..2 -> Clauses]}
    \cup {[clauses |-> cs, cc |-> "and"] : cs \in [1..1 -> Clauses]}

SentenceArgs ==
    {[clauses |-> cs, cc |-> ""] : cs \in [1..1 -> Clauses]}
    \cup {[clauses |-> cs, cc |-> cc] :
            cs \in SeqsUpTo(Clauses, MaxParts) \ [1..1 -> Clauses],
            cc \in Conjunctions}
    \cup OneLabelArgs

\* Parameter sets handed to MoveCSR.apply directly
MoveParams ==
    [action : {"move", "turn"}, unit : {"pixel", "deg", "rad"},
     direction : {"fd", "bk", "up", "down", "left", "right"},
     amount : {"10", "90", "2.5", "ten"},
     names : {<<>>, <<"t">>, <<"t", "u">>}]

----------------------------------------------------------------------------
(* Calls of the compiler's functions *)

NoRet == [kind |-> "", val |-> <<>>, t |-> <<>>]
NoCall == [fn |-> "", pool |-> <<>>]
NoArg == [kind |-> "", clauses |-> <<>>, cc |-> "", exc |-> "",
          t |-> <<>>, root |-> 0, params |-> <<>>]

\* The words of a sentence after parse_sentence, with the clauses it was
\* built from.
SentenceArg(a) ==
    LET Arg(p) ==
            [kind |-> "sentence", clauses |-> a.clauses, cc |-> a.cc,
             exc |-> p.exc, t |-> p.t, root |-> p.root, params |-> <<>>]
    IN  Arg(parse_sentence(MkSentence(a.clauses, a.cc)))

\* Parameters for MoveCSR.apply, with the word they are reported at.
ParamsArg(p) ==
    [SentenceArg([clauses |-> <<MoveClause("move", "10", "steps",
                                           "forward")>>, cc |-> ""])
        EXCEPT !.kind = "params", !.params = p]

\* text_to_turtle has not been called.
DriverIdle ==
    /\ texts = <<>>
    /\ text_no = 0
    /\ sentences = <<>>
    /\ yielded = <<>>
    /\ stderr = <<>>
    /\ driver = "idle"

CsrInit ==
    /\ InprInit
    /\ DriverIdle
    /\ arg \in {SentenceArg(a) : a \in SentenceArgs}
                \cup {ParamsArg(p) : p \in MoveParams}
    /\ call = NoCall
    /\ ret = NoRet

Parsed == call.fn = "" /\ arg.kind = "sentence" /\ arg.exc = ""

\* Line 589: the pools convert hands to apply_csrs, in order; the right
\* operand of `or` is evaluated when the left one returns a false value.
pools_tried(t, word) ==
    LET Tried(first) ==
            IF first.kind \in {"CEList", "exc"} \/ Truthy(first)
            THEN <<nonterminal_CSRs>>
            ELSE <<nonterminal_CSRs, terminal_CSRs>>
    IN  Tried(apply_csrs(t, word, nonterminal_CSRs))

\* convert(s) for a parsed sentence s
CallConvert ==
    /\ Parsed
    /\ ret' = convert(arg.t, arg.root)
    /\ call' = [fn |-> "convert", pool |-> <<>>,
                pools |-> pools_tried(arg.t, arg.root)]
    /\ UNCHANGED <<arg, ivars, dvars>>

\* get_names(dobj_word, include_others, []) for the direct object of the
\* root; val is [names, errlist] after the call.
CallGetNames ==
    /\ Parsed
    /\ \E w \in SeqToSet(Get(arg.t, <<arg.root>>, <<"dobj">>)),
          include_others \in BOOLEAN :
          /\ ret' = Ok(get_names(arg.t, w, include_others, <<>>), arg.t)
          /\ call' = [fn |-> "get_names", pool |-> <<>>, word |-> w,
                      include_others |-> include_others]
    /\ UNCHANGED <<arg, ivars, dvars>>

\* AndCSR().detect(s)
CallAndDetect ==
    /\ Parsed
    /\ ret' = AndDetect(arg.t, arg.root)
    /\ call' = [fn |-> "AndCSR.detect", pool |-> <<>>]
    /\ UNCHANGED <<arg, ivars, dvars>>

\* apply_csrs(s, pool) for either pool
CallApplyCsrs ==
    /\ Parsed
    /\ \E pool \in {terminal_CSRs, nonterminal_CSRs} :
          /\ ret' = apply_csrs(arg.t, arg.root, pool)
          /\ call' = [fn |-> "apply_csrs", pool |-> pool]
    /\ UNCHANGED <<arg, ivars, dvars>>

\* MoveCSR().apply(word, params)
CallMoveApply ==
    /\ call.fn = "" /\ arg.kind = "params"
    /\ ret' = MoveApply(arg.t, arg.root, arg.params)
    /\ call' = [fn |-> "MoveCSR.apply", pool |-> <<>>]
    /\ UNCHANGED <<arg, ivars, dvars>>

CsrNext ==
    \/ CallConvert
    \/ CallAndDetect
    \/ CallApplyCsrs
    \/ CallMoveApply
    \/ CallGetNames

CsrSpec == CsrInit /\ [][CsrNext]_vars

----------------------------------------------------------------------------
(* parse_sentence on arbitrary edge lists *)

TokenTexts == <<"a", "b", "c", "d">>

\* The tokens of a sentence of n words, numbered from 1 as CoreNLP does.
RawTokens(n) ==
    [i \in 1..n |-> [word |-> TokenTexts[i], index |-> i, pos |-> "NN"]]

\* The edges a sentence of n words may list: governor 0 names the root;
\* the indices 0 (as dependent) and n + 1 are out of range.
RawEdges(n) ==
    {Dep(g, IF g = 0 THEN "ROOT" ELSE "dep", d) :
        g \in 0..(n + 1), d \in 0..(n + 1)}

\* The governor -> dependent pairs add_edge may store for an edge list,
\* with Python's wrap of the index -1; an edge whose index raises
\* IndexError stores nothing.
StoredPairs(sentence) ==
    LET n == Len(sentence.tokens)
        all == {<<PyIndex(n, sentence.deps[i].governor - 1),
                  PyIndex(n, sentence.deps[i].dependent - 1)>> :
                   i \in {j \in 1..Len(sentence.deps) :
                             sentence.deps[j].governor # 0}}
    IN  {p \in all : p[1] # 0 /\ p[2] # 0}

\* The words reached from x along at most k stored edges.
RECURSIVE Reach(_, _, _)
Reach(pairs, x, k) ==
    IF k = 0 THEN {x}
    ELSE LET near == Reach(pairs, x, k - 1)
         IN  near \cup {p[2] : p \in {q \in pairs : q[1] \in near}}

\* No word is below itself.  find_phrase recurses without end on a cycle
\* (a RecursionError in Python); such edge lists are left out.
Acyclic(sentence) ==
    LET pairs == StoredPairs(sentence)
        n == Len(sentence.tokens)
    IN  \A p \in pairs : p[1] \notin Reach(pairs, p[2], n)

RawSentences ==
    {s \in UNION {[tokens : {RawTokens(n)},
                   deps : UNION {[1..k -> RawEdges(n)] : k \in 0..MaxEdges}] :
                  n \in 1..MaxTokens} :
        Acyclic(s)}

RawArg(s) == [kind |-> "raw", sentence |-> s]

ParseInit ==
    /\ InprInit
    /\ DriverIdle
    /\ arg \in {RawArg(s) : s \in RawSentences}
    /\ call = NoCall
    /\ ret = NoRet

\* parse_sentence(sentence, text): val is the root returned, or the
\* exception raised.
CallParseSentence ==
    /\ call.fn = "" /\ arg.kind = "raw"
    /\ LET Outcome(p) ==
               IF p.exc # "" THEN RaiseExc(p.exc, p.t) ELSE Ok(p.root, p.t)
       IN  ret' = Outcome(parse_sentence(arg.sentence))
    /\ call' = [fn |-> "parse_sentence", pool |-> <<>>]
    /\ UNCHANGED <<arg, ivars, dvars>>

ParseNext == CallParseSentence

ParseSpec == ParseInit /\ [][ParseNext]_vars

----------------------------------------------------------------------------
(* turtle_nlp.py: the driver text_to_turtle, feeding Interpreter.run *)

\* The clause of Clauses with the given words.
ClauseOf(words) ==
    CHOOSE c \in Clauses :
        [i \in 1..Len(c.tokens) |-> c.tokens[i].word] = words

\* move Bob 10 steps forward left
TwoDirections ==
    [tokens |-> <<Tok("move", "VB"), Tok("Bob", "NNP"), Tok("10", "CD"),
                  Tok("steps", "NNS"), Tok("forward", "RB"),
                  Tok("left", "RB")>>,
     head |-> 1,
     deps |-> <<Dep(1, "dobj", 2), Dep(1, "nmod", 4), Dep(4, "nummod", 3),
                Dep(1, "advmod", 5), Dep(1, "advmod", 6)>>]

\* repeat 3 times 2 times
TwoTimes ==
    [tokens |-> <<Tok("repeat", "VB"), Tok("3", "CD"), Tok("times", "NNS"),
                  Tok("2", "CD"), Tok("times", "NNS")>>,
     head |-> 1,
     deps |-> <<Dep(1, "nmod", 3), Dep(3, "nummod", 2), Dep(1, "nmod", 5),
                Dep(5, "nummod", 4)>>]

\* repeat 0 times
RepeatZero ==
    [tokens |-> <<Tok("repeat", "VB"), Tok("0", "CD"), Tok("times", "NNS")>>,
     head |-> 1,
     deps |-> <<Dep(1, "nmod", 3), Dep(3, "nummod", 2)>>]

\* The sentences of the input: ones that compile, ones for which no CSR
\* or several CSRs match, and ones that use a pattern incorrectly.
DriverSentences ==
    LET Move == MoveClause("move", "10", "steps", "forward")
        Turn == MoveClause("turn", "90", "degrees", "left")
    IN  { [clauses |-> <<Move>>, cc |-> ""],
          [clauses |-> <<Move, ClauseOf(<<"do", "this", "twice">>)>>,
           cc |-> "and"],
          [clauses |-> <<Move, RepeatZero>>, cc |-> "and"],
          [clauses |-> <<ClauseOf(<<"now", "go">>)>>, cc |-> ""],
          [clauses |-> <<ClauseOf(<<"make", "Bob", "move", "Amy", "10",
                                    "steps", "forward">>)>>, cc |-> ""],
          [clauses |-> <<Move, Turn>>, cc |-> ""],
          [clauses |-> <<TwoDirections>>, cc |-> ""],
          [clauses |-> <<Move, TwoTimes>>, cc |-> "and"] }

\* A text is the list of sentences parse_text finds in it; the blank
\* line has none and is not sent to the server.
DriverTexts == {<<>>} \cup {<<x>> : x \in DriverSentences}

\* parse_text(text, server_url)
parse_text(text) ==
    [i \in 1..Len(text) |->
        parse_sentence(MkSentence(text[i].clauses, text[i].cc))]

DriverInit ==
    /\ InprInit
    /\ arg = NoArg /\ call = NoCall /\ ret = NoRet
    /\ texts \in {<<>>} \cup SeqsUpTo(DriverTexts, MaxTexts)
    /\ text_no = 0
    /\ sentences = <<>>
    /\ yielded = <<>>
    /\ stderr = <<>>
    /\ driver = "running"

\* Lines 605-608: the next text is read and parsed.
DriverNextText ==
    /\ driver = "running"
    /\ sentences = <<>>
    /\ text_no < Len(texts)
    /\ text_no' = text_no + 1
    /\ sentences' = parse_text(texts[text_no + 1])
    /\ UNCHANGED <<texts, yielded, stderr, driver, ivars, cvars>>

\* Line 605 at the end of the input: next(gen) raises StopIteration inside
\* the generator, which ends it (Python up to 3.6) or is turned into a
\* RuntimeError (Python 3.7 and later).
DriverStop ==
    /\ driver = "running"
    /\ sentences = <<>>
    /\ text_no = Len(texts)
    /\ driver' \in {"returned", "RuntimeError"}
    /\ UNCHANGED <<texts, text_no, sentences, yielded, stderr, ivars, cvars>>

\* Lines 609-614 for one sentence: its lines are yielded, a CEList is
\* printed, any other exception leaves the generator.
DriverConvert ==
    /\ driver = "running"
    /\ sentences # <<>>
    /\ LET Handle(r) ==
               IF r.kind = "ok"
               THEN /\ yielded' = yielded \o r.val
                    /\ UNCHANGED <<stderr, driver>>
               ELSE IF r.kind = "CEList"
               THEN /\ stderr' = Append(stderr, r.val)
                    /\ UNCHANGED <<yielded, driver>>
               ELSE /\ driver' = r.val
                    /\ UNCHANGED <<yielded, stderr>>
       IN  Handle(convert(Head(sentences).t, Head(sentences).root))
    /\ sentences' = Tail(sentences)
    /\ UNCHANGED <<texts, text_no, ivars, cvars>>

\* inpr.py line 79 with the driver as self.gen: the next yielded line is
\* appended to history (a yielded line is never blank).
PullYielded ==
    /\ AtEnd
    /\ gen_pos < Len(yielded)
    /\ history' = Append(history, yielded[gen_pos + 1])
    /\ gen_pos' = gen_pos + 1
    /\ UNCHANGED <<line_no, num_stack, line_stack, depth, outfile, steps,
                   status>>
    /\ UNCHANGED <<cvars, dvars>>

\* inpr.py lines 79-81: the driver has ended; run() returns on
\* StopIteration and is left by any other exception.
PullDriverEnd ==
    /\ AtEnd
    /\ gen_pos = Len(yielded)
    /\ driver # "running"
    /\ status' = driver
    /\ UNCHANGED <<history, line_no, num_stack, line_stack, depth, outfile,
                   gen_pos, steps>>
    /\ UNCHANGED <<cvars, dvars>>

\* The steps of `Interpreter(text_to_turtle(...)).run()`.  The steps of
\* run() that raise on an instruction (ExecInvalid, ExecRepeatValueError,
\* ExecEndUnmatched) end the run; whether one of them is ever enabled here
\* is stated as a property of the states.
DriverNext ==
    \/ DriverNextText
    \/ DriverConvert
    \/ DriverStop
    \/ PullYielded
    \/ PullDriverEnd
    \/ ExecSkip
    \/ ExecRepeat
    \/ ExecEndPop
    \/ ExecEndJump
    \/ ExecBasic

DriverSpec == DriverInit /\ [][DriverNext]_vars

----------------------------------------------------------------------------
(* Specifications *)

Init ==
    /\ InprInit
    /\ DriverIdle
    /\ arg = NoArg /\ call = NoCall /\ ret = NoRet

Next == InprNext

Spec == Init /\ [][Next]_vars

\* run() is a sequential loop over a finite input: it always takes its
\* next step.
LiveSpec == Init /\ [][Next]_vars /\ WF_vars(Next)

----------------------------------------------------------------------------
(* Reference notions for the interpreter's properties *)

IsRepeat(instr) == Len(instr) > 0 /\ instr[1] = "repeat"
IsEnd(instr) == Len(instr) > 0 /\ instr[1] = "end"

\* An instruction of the assembly language: opcode of the table, operands
\* of the table's arity and types, a repeat count that is not negative.
WellFormedInstr(instr) ==
    /\ Len(instr) > 0
    /\ instr[1] \in DOMAIN opcodes
    /\ Len(instr) - 1 = Len(opcodes[instr[1]])
    /\ \A i \in 1..(Len(instr) - 1) : Converts(opcodes[instr[1]][i], instr[i + 1])
    /\ IsRepeat(instr) => IntValue[instr[2]] >= 0

\* repeat lines minus end lines among h[i..j]
RECURSIVE Nest(_, _, _)
Nest(h, i, j) ==
    IF j < i THEN 0
    ELSE Nest(h, i, j - 1)
         + (IF IsRepeat(h[j]) THEN 1 ELSE IF IsEnd(h[j]) THEN -1 ELSE 0)

\* No prefix of h closes more blocks than it opened.
NoUnmatchedEnd(h) == \A j \in 1..Len(h) : Nest(h, 1, j) >= 0

WellFormedPrefix(h) ==
    /\ \A i \in 1..Len(h) : WellFormedInstr(h[i])
    /\ NoUnmatchedEnd(h)

WellFormedStream(h) == WellFormedPrefix(h) /\ Nest(h, 1, Len(h)) = 0

\* The index of the `end` that matches the `repeat` at h[i], 0 if none.
MatchEnd(h, i) ==
    LET js == {j \in (i + 1)..Len(h) : Nest(h, i, j) = 0}
    IN  IF js = {} THEN 0 ELSE CHOOSE j \in js : \A k \in js : j <= k

RECURSIVE Times(_, _)
Times(s, n) == IF n = 0 THEN <<>> ELSE s \o Times(s, n - 1)

\* A well-formed stream with every repeat block written out.
RECURSIVE Unroll(_)
Unroll(s) ==
    IF s = <<>> THEN <<>>
    ELSE IF IsRepeat(s[1])
    THEN LET m == MatchEnd(s, 1)
         IN  Times(Unroll(SubSeq(s, 2, m - 1)), IntValue[s[1][2]])
             \o Unroll(SubSeq(s, m + 1, Len(s)))
    ELSE <<s[1]>> \o Unroll(Tail(s))

\* Instruction executions a well-formed stream implies: every line of a
\* block runs once per iteration, a zero-iteration block is read once.
RECURSIVE Cost(_)
Cost(s) ==
    IF s = <<>> THEN 0
    ELSE IF IsRepeat(s[1])
    THEN LET m == MatchEnd(s, 1)
             n == IntValue[s[1][2]]
         IN  (IF n = 0 THEN m
              ELSE 1 + n * (Cost(SubSeq(s, 2, m - 1)) + 1))
             + Cost(SubSeq(s, m + 1, Len(s)))
    ELSE 1 + Cost(Tail(s))

\* h with its open blocks closed.
Close(h) == h \o [i \in 1..Nest(h, 1, Len(h)) |-> <<"end">>]

----------------------------------------------------------------------------
(* Properties of the interpreter *)

\* C1: once a well-formed stream (balanced repeat/end, counts >= 0) has
\* been run to its end, the sink holds exactly the stream with every
\* `repeat N` block unrolled N times, and no loop is left open.
C1_SinkIsUnrolling ==
    (status \in {"running", "returned"} /\ line_no = Len(history)
        /\ WellFormedStream(history))
    => (outfile = Unroll(history) /\ num_stack = <<>> /\ depth = 0)

\* a nested loop ran: 2 x 2 forwards
C1_Witness ==
    /\ status = "returned"
    /\ history = << <<"repeat", "2">>, <<"repeat", "2">>, <<"fd", "a", "10">>,
                    <<"end">>, <<"end">> >>
    /\ Len(outfile) = 4

\* C2: while a region is skipped (depth > 0) nothing is forwarded and the
\* loop stack does not change; the region is that of a `repeat 0` at some
\* index i whose matching `end` (by nesting) has not been passed, depth
\* being the nesting count since i; and skipping stops exactly with the
\* step that passes that matching `end`.
C2_SkipToMatchingEnd ==
    [][depth > 0 =>
        /\ outfile' = outfile
        /\ num_stack' = num_stack
        /\ line_stack' = line_stack
        /\ \E i \in 1..line_no :
              /\ history[i] = <<"repeat", "0">>
              /\ \A j \in i..line_no : Nest(history, i, j) > 0
              /\ depth = Nest(history, i, line_no)
              /\ (depth' = 0 <=> line_no' = MatchEnd(history, i))]_vars

\* a region with a nested loop was skipped and the next line forwarded
C2_Witness ==
    /\ history = << <<"repeat", "0">>, <<"repeat", "2">>, <<"end">>,
                    <<"end">>, <<"fd", "a", "10">> >>
    /\ outfile = << <<"fd", "a", "10">> >>
    /\ depth = 0

\* C3: an `end` reached while not skipping with an empty loop stack raises
\* the unmatched-end error, forwarding nothing and pulling nothing, and no
\* step follows the error.
C3_UnmatchedEndHalts ==
    [][/\ (CanExec /\ Fetch = <<"end">> /\ depth = 0 /\ num_stack = <<>>)
            => (status' = "UnmatchedEnd" /\ outfile' = outfile
                /\ gen_pos' = gen_pos /\ line_no' = line_no)
       /\ status # "UnmatchedEnd"]_vars

\* the error was raised after something had been forwarded
C3_Witness == status = "UnmatchedEnd" /\ outfile # <<>> /\ line_no > 1

\* C4: an instruction with a known opcode and the right number of operands
\* but an operand of the wrong type (or a negative repeat count) is
\* rejected with an InterpreterError and has no effect.
C4_TypesValidated ==
    [][(CanExec /\ Fetch[1] \in DOMAIN opcodes
            /\ Len(Fetch) - 1 = Len(opcodes[Fetch[1]])
            /\ ~WellFormedInstr(Fetch))
        => (status' \in {"InvalidOpcode", "InvalidArgs", "InvalidTypes"}
            /\ outfile' = outfile /\ num_stack' = num_stack)]_vars

\* C5: the input is pulled only at line_no = len(history), one line per
\* pull; a pulled line is appended to history if it is not blank and is
\* otherwise dropped; history changes in no other way; an instruction in
\* history is executed without touching the input; and the end of input
\* makes run() return.
C5_LazyHistory ==
    [][/\ gen_pos' # gen_pos =>
            /\ AtEnd
            /\ gen_pos' = gen_pos + 1
            /\ line_no' = line_no /\ status' = status /\ steps' = steps
            /\ \/ history' = history
               \/ /\ Len(history') = Len(history) + 1
                  /\ SubSeq(history', 1, Len(history)) = history
                  /\ history'[Len(history')] # Blank
       /\ history' # history => gen_pos' # gen_pos
       /\ CanExec => (gen_pos' = gen_pos /\ steps' = steps + 1)
       /\ (AtEnd /\ gen_pos' = gen_pos) => status' = "returned"
       /\ status' = "returned" => (line_no = Len(history) /\ status = "running")
      ]_vars

\* a loop body was re-executed from history: more executions than lines
C5_Witness ==
    /\ status = "returned"
    /\ steps > Len(history)
    /\ gen_pos > Len(history)
    /\ Len(outfile) > 1

\* C6: a run over a well-formed stream returns, and never executes more
\* instructions than the loop counts of the stream imply.
C6_Terminates ==
    /\ [](WellFormedPrefix(history) => steps <= Cost(Close(history)))
    /\ <>(status = "returned" \/ ~WellFormedPrefix(history))

\* a run over a balanced stream with a loop returned within the bound
C6_Witness ==
    /\ status = "returned"
    /\ WellFormedStream(history)
    /\ steps = Cost(history)
    /\ steps > Len(history)

----------------------------------------------------------------------------
(* Properties of the compiler's functions *)

\* The CSRs of the pool of the call whose detect returns parameters.
Matching ==
    LET found == get_csrs(arg.t, arg.root, call.pool)
    IN  IF found.kind = "ok"
        THEN [i \in 1..Len(found.val) |-> found.val[i].csr]
        ELSE <<>>

\* C7: apply_csrs on a pool in which more than one CSR's detect returns
\* parameters raises a CEList holding one ManyCSR error with errcode
\* MANYCSR that names every matching CSR.
C7_ManyCSRNamesAll ==
    (call.fn = "apply_csrs" /\ Len(Matching) > 1)
    => /\ ret.kind = "CEList"
       /\ Len(ret.val) = 1
       /\ ret.val[1].cls = "ManyCSRCE"
       /\ ret.val[1].errcode = StrCode("MANYCSR")
       /\ ret.val[1].csr_list = Matching

\* The root of the sentence has conj children and a cc child whose text
\* is not "and".
RootHasOtherCc ==
    /\ arg.kind = "sentence"
    /\ EdgeList(arg.t, arg.root, "conj") # <<>>
    /\ \E i \in 1..Len(EdgeList(arg.t, arg.root, "cc")) :
          arg.t.text[EdgeList(arg.t, arg.root, "cc")[i]] # "and"

\* C8 as stated: AndCSR.detect on a node whose cc text is not "and" (with
\* a conj child) raises a CEList whose error is BadCC (errcode BADCC).
C8_RaisesBadCC ==
    (call.fn = "AndCSR.detect" /\ RootHasOtherCc)
    => /\ ret.kind = "CEList"
       /\ errcodes(ret.val) = <<StrCode("BADCC")>>

\* C8 amended: AndCSR.detect on a node whose cc text is not "and" (with a
\* conj child) raises a CEList holding one BadData error (errcode
\* BADDATA) for parameter 'cc' whose value is the offending text, located
\* at the node, and leaves the node's edges and span as they were.
C8_RaisesBadData ==
    (call.fn = "AndCSR.detect" /\ RootHasOtherCc)
    => /\ ret.kind = "CEList"
       /\ Len(ret.val) = 1
       /\ ret.val[1].cls = "BadDataCE"
       /\ ret.val[1].errcode = StrCode("BADDATA")
       /\ ret.val[1].param = "cc"
       /\ ret.val[1].value = "or"
       /\ ret.val[1].word = arg.root
       /\ ret.t = arg.t

\* AndCSR.detect ran on `A or B`
C8_Witness ==
    /\ call.fn = "AndCSR.detect"
    /\ RootHasOtherCc
    /\ Len(arg.clauses) = 2
    /\ ret.kind = "CEList"

\* A clause whose head is a loop wrapper, and the count it states.
IsWrapper(c) == Lower(c.tokens[c.head].word) \in {"do", "repeat"}

CountWords == ("once" :> 1) @@ ("twice" :> 2) @@ ("thrice" :> 3)

WrapperCount(c) ==
    LET words == {c.tokens[i].word : i \in 1..Len(c.tokens)}
    IN  IF "times" \in words
        THEN IntValue[CHOOSE x \in words : x \in DOMAIN IntValue]
        ELSE CountWords[CHOOSE x \in words : x \in DOMAIN CountWords]

\* The outcome of compiling a clause as a sentence of its own.
Code(c) ==
    LET a == SentenceArg([clauses |-> <<c>>, cc |-> ""])
    IN  convert(a.t, a.root)

\* A conjunction with "and" whose parts are wrappers or compile alone.
AndOfGoodParts ==
    /\ call.fn = "convert"
    /\ arg.cc = "and"
    /\ Len(arg.clauses) > 1
    /\ \A i \in 1..Len(arg.clauses) :
          IsWrapper(arg.clauses[i]) \/ Code(arg.clauses[i]).kind = "ok"

\* The parts [A, B, W]: W the only wrapper.
PartsABW ==
    /\ AndOfGoodParts
    /\ Len(arg.clauses) = 3
    /\ ~IsWrapper(arg.clauses[1])
    /\ ~IsWrapper(arg.clauses[2])
    /\ IsWrapper(arg.clauses[3])

\* C9 as stated: for parts [A, B, W], W a single wrapper with count n,
\* convert emits code(A), code(B), then `repeat n`, the wrapped block and
\* `end`: the instructions of A and B come before the `repeat n`.
C9_RepeatAfterParts ==
    PartsABW
    => LET ab == Code(arg.clauses[1]).val \o Code(arg.clauses[2]).val
           n == WrapperCount(arg.clauses[3])
       IN  /\ ret.kind = "ok"
           /\ Len(ret.val) >= Len(ab) + 2
           /\ SubSeq(ret.val, 1, Len(ab)) = ab
           /\ ret.val[Len(ab) + 1] = <<"repeat", IntStr(n)>>
           /\ ret.val[Len(ret.val)] = <<"end">>

\* C9 amended: the compiled output of a conjunction starts with one
\* `repeat N` per loop wrapper (the last wrapper's first), followed by the
\* parts in sentence order, a non-wrapper part as its instructions and a
\* wrapper as the line `end`; for parts [A, B, W] with W of count 2 it is
\* `repeat 2`, code(A), code(B), `end`.
C9_RepeatsThenParts ==
    AndOfGoodParts
    => LET cs == arg.clauses
           IsW(c) == IsWrapper(c)
           ws == Reverse(SelectSeq(cs, IsW))
           repeats == [i \in 1..Len(ws) |->
                          <<"repeat", IntStr(WrapperCount(ws[i]))>>]
           body == Concat([i \in 1..Len(cs) |->
                              IF IsWrapper(cs[i]) THEN << <<"end">> >>
                              ELSE Code(cs[i]).val])
       IN  /\ ret.kind = "ok"
           /\ ret.val = repeats \o body

\* `move ... and turn ... and do this twice` was compiled
C9_Witness ==
    /\ PartsABW
    /\ ret.kind = "ok"
    /\ ret.val = << <<"repeat", "2">>, <<"fd", "bob", "10.0">>,
                    <<"deg", "bob">>, <<"rol", "bob", "90.0">>, <<"end">> >>

MoveOp ==
    [fd |-> "fd", bk |-> "bk", up |-> "up", down |-> "down",
     left |-> "shl", right |-> "shr"]

TurnOp == [left |-> "rol", right |-> "ror"]

\* C10: for a numeric amount MoveCSR.apply returns, for move with unit
\* pixel, the line `<op> <name> <amount as float>` per name in the order
\* of names (op fd/bk/up/down, shl for left, shr for right); for turn
\* with unit deg or rad and direction left or right, the line
\* `<unit> <name>` per name followed by `rol`/`ror <name> <amount>` per
\* name; and for every other combination raises a CEList of BadData
\* errors.
C10_MoveApply ==
    (call.fn = "MoveCSR.apply" /\ arg.params.amount \in DOMAIN FloatStr)
    => LET p == arg.params
           n == Len(p.names)
           amount == FloatStr[p.amount]
       IN  IF p.action = "move" /\ p.unit = "pixel"
           THEN /\ ret.kind = "ok"
                /\ ret.val = [i \in 1..n |->
                                <<MoveOp[p.direction], p.names[i], amount>>]
           ELSE IF p.action = "turn" /\ p.unit \in {"deg", "rad"}
                     /\ p.direction \in {"left", "right"}
           THEN /\ ret.kind = "ok"
                /\ ret.val =
                     [i \in 1..n |-> <<p.unit, p.names[i]>>]
                     \o [i \in 1..n |->
                            <<TurnOp[p.direction], p.names[i], amount>>]
           ELSE /\ ret.kind = "CEList"
                /\ ret.val # <<>>
                /\ \A i \in 1..Len(ret.val) :
                      /\ ret.val[i].cls = "BadDataCE"
                      /\ ret.val[i].errcode = StrCode("BADDATA")

\* turn, deg, left, ["t"], 90 gave ["deg t", "rol t 90.0"]
C10_Witness ==
    /\ call.fn = "MoveCSR.apply"
    /\ arg.params = [action |-> "turn", unit |-> "deg", direction |-> "left",
                     amount |-> "90", names |-> <<"t">>]
    /\ ret.kind = "ok"
    /\ ret.val = << <<"deg", "t">>, <<"rol", "t", "90.0">> >>

\* No `repeat` of the history states a negative count.
NonNegativeCounts ==
    \A i \in 1..Len(history) :
        (IsRepeat(history[i]) /\ Len(history[i]) = 2
            /\ history[i][2] \in DOMAIN IntValue)
        => IntValue[history[i][2]] >= 0

\* The state part of C13.
InterpreterStateInv ==
    /\ 0 <= line_no /\ line_no <= Len(history)
    /\ Len(num_stack) = Len(line_stack)
    /\ \A i \in 1..Len(line_stack) : line_stack[i] <= line_no
    /\ \A i \in 1..(Len(line_stack) - 1) : line_stack[i] < line_stack[i + 1]
    /\ depth >= 0
    /\ NonNegativeCounts => \A i \in 1..Len(num_stack) : num_stack[i] >= 0

\* history is only appended to.
HistoryGrows ==
    /\ Len(history') >= Len(history)
    /\ SubSeq(history', 1, Len(history)) = history

\* C13: in every reachable state of run(), 0 <= line_no <= len(history),
\* num_stack and line_stack have equal length, every stored resume point
\* is <= line_no and the resume points increase strictly from bottom to
\* top, depth >= 0, and when no repeat count is negative every count on
\* num_stack is >= 0; every step leaves the existing entries of history
\* as they are and at most appends to it.
C13_InterpreterInvariants ==
    [](InterpreterStateInv) /\ [][HistoryGrows]_vars

\* Two nested loops are open and the inner one has jumped back.
C13_Witness ==
    /\ num_stack = <<1, 0>>
    /\ line_stack = <<1, 2>>
    /\ line_no = 2
    /\ Len(history) = 4

\* The outcome of get_csrs on the nonterminal pool for the sentence.
NonterminalFound == get_csrs(arg.t, arg.root, nonterminal_CSRs)

\* C14: convert consults the terminal pool only when no nonterminal CSR
\* matched the word; when a nonterminal CSR matched, the outcome of its
\* apply is the outcome of convert, whatever it is; and when none
\* matched, a CEList with NoCSR for the word is raised exactly when no
\* terminal CSR matches it either.
C14_TerminalOnlyAfterNoMatch ==
    call.fn = "convert"
    => LET nt == NonterminalFound
           matched == nt.kind = "ok" /\ nt.val # <<>>
           term == get_csrs(nt.t, arg.root, terminal_CSRs)
           nocsr == /\ ret.kind = "CEList"
                    /\ Len(ret.val) = 1
                    /\ ret.val[1].cls = "NoCSRCE"
                    /\ ret.val[1].word = arg.root
       IN  /\ terminal_CSRs \in SeqToSet(call.pools)
                => (nt.kind = "ok" /\ nt.val = <<>>)
           /\ matched
                => ret = apply_csrs(arg.t, arg.root, nonterminal_CSRs)
           /\ (nt.kind = "ok" /\ nt.val = <<>>)
                => (nocsr <=> (term.kind = "ok" /\ term.val = <<>>))

\* The root has conj children or cc children, but not both.
RootHasOneLabel ==
    /\ arg.kind = "sentence"
    /\ (EdgeList(arg.t, arg.root, "conj") # <<>>)
         # (EdgeList(arg.t, arg.root, "cc") # <<>>)

\* C15: AndCSR.detect on a node with exactly one of the labels cc and
\* conj raises a CEList carrying one compile error of the BadCC class
\* located at that node.
C15_OneLabelRaisesCEList ==
    (call.fn = "AndCSR.detect" /\ RootHasOneLabel)
    => /\ ret.kind = "CEList"
       /\ Len(ret.val) = 1
       /\ ret.val[1].cls \in {"BadCCCE", "CompileError"}
       /\ ret.val[1].word = arg.root

\* The words below w in tree t, w included.
RECURSIVE Subtree(_, _)
Subtree(t, w) ==
    {w} \cup UNION {Subtree(t, k) : k \in SeqToSet(children_iter(t, w))}

\* The sequence s lists its words in strictly increasing sentence index.
InSentenceOrder(t, s) ==
    \A i \in 1..(Len(s) - 1) : t.word_no[s[i]] < t.word_no[s[i + 1]]

\* C16: after AndCSR.detect succeeds on node w, w has no cc/conj edges,
\* its other edges are as before, its span holds exactly the words of its
\* remaining subtree (no word of a conjunct or of the conjunction) in
\* sentence order, every other node is unchanged, a second AndCSR.detect
\* on w returns None, and convert of w returns or raises.
C16_EdgesRemoved ==
    (call.fn = "AndCSR.detect" /\ ret.kind = "ok")
    => LET w == arg.root
           gone == SeqToSet(EdgeList(arg.t, w, "conj"))
                     \cup SeqToSet(EdgeList(arg.t, w, "cc"))
       IN  /\ DOMAIN ret.t.edges[w] = (DOMAIN arg.t.edges[w]) \ {"cc", "conj"}
           /\ \A l \in DOMAIN ret.t.edges[w] :
                 ret.t.edges[w][l] = arg.t.edges[w][l]
           /\ SeqToSet(ret.t.word_objs[w]) = Subtree(ret.t, w)
           /\ Len(ret.t.word_objs[w]) = Cardinality(Subtree(ret.t, w))
           /\ InSentenceOrder(ret.t, ret.t.word_objs[w])
           /\ \A g \in gone :
                 Subtree(arg.t, g) \cap SeqToSet(ret.t.word_objs[w]) = {}
           /\ ret.t.word_strs[w] =
                 {ret.t.text[x] : x \in Subtree(ret.t, w)}
           /\ \A x \in (DOMAIN arg.t.text) \ {w} :
                 /\ ret.t.edges[x] = arg.t.edges[x]
                 /\ ret.t.word_objs[x] = arg.t.word_objs[x]
                 /\ ret.t.word_strs[x] = arg.t.word_strs[x]
           /\ ret.t.text = arg.t.text
           /\ ret.t.word_no = arg.t.word_no
           /\ ret.t.pos = arg.t.pos
           /\ AndDetect(ret.t, w).kind = "none"
           /\ convert(ret.t, w).kind \in {"ok", "CEList", "exc"}

\* AndCSR.detect succeeded on `Move Bob and Amy 10 steps left and make Bob`
C16_Witness ==
    /\ call.fn = "AndCSR.detect"
    /\ ret.kind = "ok"
    /\ arg.cc = "and"
    /\ Len(arg.clauses) = 2
    /\ Len(arg.clauses[1].tokens) = 7
    /\ arg.clauses[1].tokens[7].word = "left"
    /\ Len(arg.clauses[2].tokens) = 2
    /\ Len(arg.t.word_objs[arg.root]) = 10
    /\ Len(ret.t.word_objs[arg.root]) = 7

\* The candidate is not a name, and has no single compound child that is.
FailsAll(t, x, include_others) ==
    /\ ~is_name_word(t, x, include_others)
    /\ ~(/\ Len(EdgeList(t, x, "compound")) = 1
         /\ is_name_word(t, EdgeList(t, x, "compound")[1], include_others))

\* C17: every candidate of get_names (the node and its conj children)
\* that is neither a name nor a word with exactly one compound child that
\* is a name adds a BadData error for it to the error list.
C17_FailingCandidateReported ==
    call.fn = "get_names"
    => \A x \in {call.word} \cup SeqToSet(EdgeList(arg.t, call.word, "conj")) :
          FailsAll(arg.t, x, call.include_others)
          => \E i \in 1..Len(ret.val.errlist) :
                /\ ret.val.errlist[i].cls = "BadDataCE"
                /\ ret.val.errlist[i].value = arg.t.text[x]

\* The edges of the sentence that name a root.
RootEdges ==
    {i \in 1..Len(arg.sentence.deps) : arg.sentence.deps[i].governor = 0}

\* Some edge has a governor or a dependent outside 1..number of tokens
\* (governor 0 apart, which names the root).
IndexOutOfRange ==
    \E i \in 1..Len(arg.sentence.deps) :
        LET e == arg.sentence.deps[i]
            n == Len(arg.sentence.tokens)
        IN  \/ e.dependent < 1 \/ e.dependent > n
            \/ e.governor < 0 \/ e.governor > n

\* C12: parse_sentence fails with an error when the edge list names no
\* root, names more than one root, or holds an edge whose governor or
\* dependent is outside 1..number of tokens; it returns no tree then.
C12_BadEdgesFail ==
    (/\ call.fn = "parse_sentence"
     /\ (Cardinality(RootEdges) # 1 \/ IndexOutOfRange))
    => ret.kind = "exc"

\* The edge list is a tree over all the words of the sentence: one root
\* edge, indices in range, one governor per other word, every word below
\* the root.
IsTree ==
    LET s == arg.sentence
        n == Len(s.tokens)
        root == s.deps[CHOOSE i \in RootEdges : TRUE].dependent
    IN  /\ Cardinality(RootEdges) = 1
        /\ ~IndexOutOfRange
        /\ Len(s.deps) = n
        /\ \A x \in (1..n) \ {root} :
              \E i \in 1..Len(s.deps) :
                  s.deps[i].governor # 0 /\ s.deps[i].dependent = x
        /\ Reach(StoredPairs(s), root, n) = 1..n

\* C18: for every dependency tree and every node w, the span find_phrase
\* computes (w.word_objs) holds each word of w's subtree exactly once, in
\* strictly increasing sentence index.
C18_SpanInSentenceOrder ==
    (call.fn = "parse_sentence" /\ IsTree)
    => /\ ret.kind = "ok"
       /\ \A w \in DOMAIN ret.t.text :
             /\ SeqToSet(ret.t.word_objs[w]) = Subtree(ret.t, w)
             /\ Len(ret.t.word_objs[w]) = Cardinality(Subtree(ret.t, w))
             /\ InSentenceOrder(ret.t, ret.t.word_objs[w])

\* The sentences text_to_turtle has dealt with, in order.
Handled ==
    LET read == Concat(SubSeq(texts, 1, text_no))
    IN  SubSeq(read, 1, Len(read) - Len(sentences))

\* The outcome of convert for a sentence of the input.
Compiled(x) ==
    LET Outcome(p) == convert(p.t, p.root)
    IN  Outcome(parse_sentence(MkSentence(x.clauses, x.cc)))

\* C11: a sentence that cannot be compiled fails with a CEList that the
\* driver reports, and the driver goes on: at every moment the driver has
\* not been stopped by a sentence, it has yielded the assembly of every
\* sentence handled so far that compiles, and has reported one CEList for
\* each one that does not.
C11_DriverGoesOn ==
    LET done == Handled
        IsOk(x) == Compiled(x).kind = "ok"
        IsNotOk(x) == Compiled(x).kind # "ok"
        good == SelectSeq(done, IsOk)
        bad == SelectSeq(done, IsNotOk)
    IN  /\ driver \in {"running", "returned", "RuntimeError"}
        /\ driver = "RuntimeError" => (text_no = Len(texts) /\ sentences = <<>>)
        /\ yielded = Concat([i \in 1..Len(good) |-> Compiled(good[i]).val])
        /\ stderr = [i \in 1..Len(bad) |-> Compiled(bad[i]).val]

\* The instruction run() is about to execute would make it raise.
RunWouldRaise ==
    /\ CanExec
    /\ \/ Validate(Fetch) # ""
       \/ /\ depth = 0
          /\ \/ Head(Fetch) = "repeat" /\ Fetch[2] \notin DOMAIN IntValue
             \/ Head(Fetch) = "end" /\ Len(num_stack) = 0

\* C19: the assembly yielded for the sentences compiled so far is a
\* sequence of instructions of the opcode table with the right operands
\* in which repeat and end are well-bracketed, and run() executing it is
\* never about to raise an error on an instruction.
C19_OutputRunsClean ==
    /\ WellFormedStream(yielded)
    /\ ~RunWouldRaise
    /\ status \notin {"InvalidOpcode", "InvalidArgs", "InvalidTypes",
                      "UnmatchedEnd", "ValueError"}

\* run() has gone twice through the loop compiled from
\* `move Bob 10 steps forward and do this twice`, after a first sentence.
C19_Witness ==
    /\ Len(texts) = 2
    /\ yielded = << <<"fd", "bob", "10.0">>, <<"repeat", "2">>,
                    <<"fd", "bob", "10.0">>, <<"end">> >>
    /\ outfile = << <<"fd", "bob", "10.0">>, <<"fd", "bob", "10.0">>,
                    <<"fd", "bob", "10.0">> >>
    /\ line_no = 4
    /\ num_stack = <<>>

====
